---- MODULE Spec2Model ----
(***************************************************************************)
(* Model of utilities/files.py (class IOFiles): synchronous and            *)
(* asynchronous helpers that read and write single files, JSON documents   *)
(* and whole directories of "<identifier>.<dtype>" files.                  *)
(*                                                                         *)
(* Strings (file names, dtype tags, file data) are sequences of one-       *)
(* character strings, so that str.endswith, str.replace, the text-mode     *)
(* newline translation and the JSON codec are computed character by        *)
(* character as the Python code and its library calls compute them.        *)
(***************************************************************************)
EXTENDS Integers, Sequences, FiniteSets, TLC

(***************************************************************************)
(* Bounds of the model.                                                    *)
(***************************************************************************)
\* largest number of entries of a written mapping / of files initially in
\* the directory
MaxEntries == 2
\* number of components of the directory path (ancestors + the directory)
PathDepth == 2

\* default value of the parameter `indent` of write_json / write_json_async
Indent == 4

(***************************************************************************)
(* Python str operations used by the code.                                 *)
(***************************************************************************)
Json == <<"j", "s", "o", "n">>
Txt == <<"t", "x", "t">>
Csv == <<"c", "s", "v">>
Xlsx == <<"x", "l", "s", "x">>
Pickle == <<"p", "i", "c", "k", "l", "e">>
All == <<"a", "l", "l">>
Dot == <<".">>

\* the list ["csv", "xlsx", "pickle"] of the directory reader and writer
Tabular == {Csv, Xlsx, Pickle}

\* s.startswith(p)
StartsWith(s, p) ==
    /\ Len(p) <= Len(s)
    /\ SubSeq(s, 1, Len(p)) = p

\* s.endswith(p)
EndsWith(s, p) ==
    /\ Len(p) <= Len(s)
    /\ SubSeq(s, Len(s) - Len(p) + 1, Len(s)) = p

\* s.replace(old, ""): every non-overlapping occurrence of old, scanning
\* from the left, is removed (old is never empty here)
RECURSIVE Replace(_, _)
Replace(s, old) ==
    IF Len(s) < Len(old) THEN s
    ELSE IF StartsWith(s, old)
         THEN Replace(SubSeq(s, Len(old) + 1, Len(s)), old)
         ELSE <<Head(s)>> \o Replace(Tail(s), old)

\* f"{ident}.{dtype}"
FileName(ident, dtype) == ident \o Dot \o dtype

\* file.replace(f".{dtype}", "")
StripDtype(file, dtype) == Replace(file, Dot \o dtype)

(***************************************************************************)
(* Python values.  A value is a record [t, v]:                             *)
(*   t = "str"   v = the characters                                        *)
(*   t = "int"   v = a natural number                                      *)
(*   t = "dict"  v = the items in insertion order, each [k, v]             *)
(*   t = "obj"   v = 0: an object json cannot serialise (a set, ...)       *)
(*   t = "frame" v = the rows of a pandas DataFrame                        *)
(***************************************************************************)
PyStr(s) == [t |-> "str", v |-> s]
PyInt(n) == [t |-> "int", v |-> n]
PyDict(items) == [t |-> "dict", v |-> items]
Obj == [t |-> "obj", v |-> 0]
Frame(rows) == [t |-> "frame", v |-> rows]
Item(k, v) == [k |-> k, v |-> v]

EmptyStr == PyStr(<<>>)
EmptyDict == PyDict(<<>>)
EmptyFrame == Frame(<<>>)

\* dict item assignment d[k] = v: an existing key keeps its position
RECURSIVE DictSet(_, _, _)
DictSet(items, k, v) ==
    IF items = <<>> THEN <<Item(k, v)>>
    ELSE IF Head(items).k = k THEN <<Item(k, v)>> \o Tail(items)
         ELSE <<Head(items)>> \o DictSet(Tail(items), k, v)

(***************************************************************************)
(* json.dump / json.dumps with indent.  The encoder emits the document     *)
(* piece by piece and raises TypeError at the first value it cannot        *)
(* serialise; `out` is what was emitted before that.                       *)
(***************************************************************************)
Digit == <<"0", "1", "2", "3", "4", "5", "6", "7", "8", "9">>

RECURSIVE ToDigits(_)
ToDigits(n) ==
    IF n < 10 THEN <<Digit[n + 1]>>
    ELSE ToDigits(n \div 10) \o <<Digit[(n % 10) + 1]>>

RECURSIVE Spaces(_)
Spaces(n) == IF n = 0 THEN <<>> ELSE <<" ">> \o Spaces(n - 1)

EscapeChar(c) ==
    CASE c = "\"" -> <<"\\", "\"">>
      [] c = "\\" -> <<"\\", "\\">>
      [] c = "\n" -> <<"\\", "n">>
      [] c = "\r" -> <<"\\", "r">>
      [] OTHER -> <<c>>

RECURSIVE Escape(_)
Escape(s) == IF s = <<>> THEN <<>> ELSE EscapeChar(Head(s)) \o Escape(Tail(s))

Quote(s) == <<"\"">> \o Escape(s) \o <<"\"">>

\* a dict key as json writes it: str keys as they are, int keys as str(key)
KeyText(k) == IF k.t = "int" THEN ToDigits(k.v) ELSE k.v

NewlineIndent(indent, level) == <<"\n">> \o Spaces(indent * level)

RECURSIVE Encode(_, _, _), EncodeItems(_, _, _, _)
Encode(val, indent, level) ==
    CASE val.t = "str" -> [ok |-> TRUE, out |-> Quote(val.v)]
      [] val.t = "int" -> [ok |-> TRUE, out |-> ToDigits(val.v)]
      [] val.t = "dict" ->
            IF val.v = <<>> THEN [ok |-> TRUE, out |-> <<"{", "}">>]
            ELSE LET body == EncodeItems(val.v, indent, level + 1, TRUE)
                 IN  IF body.ok
                     THEN [ok |-> TRUE,
                           out |-> <<"{">> \o NewlineIndent(indent, level + 1)
                                   \o body.out
                                   \o NewlineIndent(indent, level) \o <<"}">>]
                     ELSE [ok |-> FALSE,
                           out |-> <<"{">> \o NewlineIndent(indent, level + 1)
                                   \o body.out]
      [] OTHER -> [ok |-> FALSE, out |-> <<>>]

EncodeItems(items, indent, level, first) ==
    IF items = <<>> THEN [ok |-> TRUE, out |-> <<>>]
    ELSE LET sep == IF first THEN <<>>
                    ELSE <<",">> \o NewlineIndent(indent, level)
             key == sep \o Quote(KeyText(Head(items).k)) \o <<":", " ">>
             one == Encode(Head(items).v, indent, level)
             rest == EncodeItems(Tail(items), indent, level, FALSE)
         IN  IF ~one.ok THEN [ok |-> FALSE, out |-> key \o one.out]
             ELSE [ok |-> rest.ok, out |-> key \o one.out \o rest.out]

\* json.dumps(data, indent=indent): the whole text, or TypeError
JsonDumps(data, indent) == Encode(data, indent, 0)

(***************************************************************************)
(* json.load / json.loads.  The grammar covered is: strings, integers and  *)
(* objects, with JSON whitespace; the files of the model hold no array,    *)
(* float or literal (true, false, null).  A text outside the grammar       *)
(* raises json.JSONDecodeError (ok = FALSE).                               *)
(***************************************************************************)
IsWs(c) == c \in {" ", "\n", "\r", "\t"}
IsDigit(c) == \E i \in 1..10 : Digit[i] = c
DigitVal(c) == (CHOOSE i \in 1..10 : Digit[i] = c) - 1

ParseFail == [ok |-> FALSE, val |-> EmptyDict, pos |-> 0]
Parsed(val, pos) == [ok |-> TRUE, val |-> val, pos |-> pos]

RECURSIVE SkipWs(_, _)
SkipWs(s, i) == IF i <= Len(s) /\ IsWs(s[i]) THEN SkipWs(s, i + 1) ELSE i

Unescape(c) ==
    CASE c = "n" -> "\n"
      [] c = "r" -> "\r"
      [] c = "t" -> "\t"
      [] OTHER -> c

\* the characters after an opening quote, up to the closing quote; a raw
\* control character inside a string is an error (strict mode)
RECURSIVE ParseString(_, _, _)
ParseString(s, i, acc) ==
    IF i > Len(s) THEN ParseFail
    ELSE IF s[i] = "\"" THEN Parsed(PyStr(acc), i + 1)
    ELSE IF s[i] = "\\"
         THEN IF i + 1 <= Len(s) /\ s[i + 1] \in {"\"", "\\", "/", "n", "r", "t"}
              THEN ParseString(s, i + 2, Append(acc, Unescape(s[i + 1])))
              ELSE ParseFail
    ELSE IF s[i] \in {"\n", "\r", "\t"} THEN ParseFail
    ELSE ParseString(s, i + 1, Append(acc, s[i]))

RECURSIVE ParseDigits(_, _, _)
ParseDigits(s, i, n) ==
    IF i <= Len(s) /\ IsDigit(s[i])
    THEN ParseDigits(s, i + 1, 10 * n + DigitVal(s[i]))
    ELSE Parsed(PyInt(n), i)

\* 0 | [1-9][0-9]*
ParseInt(s, i) ==
    IF s[i] = "0" THEN Parsed(PyInt(0), i + 1) ELSE ParseDigits(s, i, 0)

RECURSIVE ParseValue(_, _), ParseMembers(_, _, _)
ParseValue(s, i) ==
    IF i > Len(s) THEN ParseFail
    ELSE IF s[i] = "\"" THEN ParseString(s, i + 1, <<>>)
    ELSE IF IsDigit(s[i]) THEN ParseInt(s, i)
    ELSE IF s[i] = "{"
         THEN LET j == SkipWs(s, i + 1)
              IN  IF j <= Len(s) /\ s[j] = "}" THEN Parsed(EmptyDict, j + 1)
                  ELSE ParseMembers(s, j, <<>>)
    ELSE ParseFail

\* "key" : value  ( , "key" : value )*  }
ParseMembers(s, i, items) ==
    IF i > Len(s) \/ s[i] # "\"" THEN ParseFail
    ELSE LET key == ParseString(s, i + 1, <<>>)
             colon == SkipWs(s, key.pos)
             val == ParseValue(s, SkipWs(s, colon + 1))
             next == SkipWs(s, val.pos)
             added == DictSet(items, key.val, val.val)
         IN  IF ~key.ok \/ colon > Len(s) \/ s[colon] # ":" THEN ParseFail
             ELSE IF ~val.ok \/ next > Len(s) THEN ParseFail
             ELSE IF s[next] = "}" THEN Parsed(PyDict(added), next + 1)
             ELSE IF s[next] = ","
                  THEN ParseMembers(s, SkipWs(s, next + 1), added)
             ELSE ParseFail

\* json.loads(text): one value, surrounded by whitespace only
JsonLoads(text) ==
    LET val == ParseValue(text, SkipWs(text, 1))
    IN  IF val.ok /\ SkipWs(text, val.pos) = Len(text) + 1
        THEN [ok |-> TRUE, val |-> val.val]
        ELSE [ok |-> FALSE, val |-> EmptyDict]

(***************************************************************************)
(* Text-mode files: open(path, "r") / open(path, "w") with the default     *)
(* newline=None.  File data is a sequence of characters; BadByte stands    *)
(* for a byte sequence the default encoding cannot decode.                 *)
(***************************************************************************)
BadByte == "<ff>"

\* os.linesep (POSIX)
LineSep == <<"\n">>

\* file.write(text): every "\n" is written as os.linesep
RECURSIVE TextEncode(_)
TextEncode(text) ==
    IF text = <<>> THEN <<>>
    ELSE (IF Head(text) = "\n" THEN LineSep ELSE <<Head(text)>>)
         \o TextEncode(Tail(text))

\* universal newlines on reading: "\r\n" and "\r" are returned as "\n"
RECURSIVE Translate(_)
Translate(data) ==
    IF data = <<>> THEN <<>>
    ELSE IF Head(data) = "\r"
         THEN IF Len(data) >= 2 /\ data[2] = "\n"
              THEN <<"\n">> \o Translate(SubSeq(data, 3, Len(data)))
              ELSE <<"\n">> \o Translate(Tail(data))
    ELSE <<Head(data)>> \o Translate(Tail(data))

\* file.read(): the decoded text, or UnicodeDecodeError
TextRead(data) ==
    IF \E i \in 1..Len(data) : data[i] = BadByte
    THEN [exc |-> "UnicodeDecodeError", text |-> <<>>]
    ELSE [exc |-> "", text |-> Translate(data)]

(***************************************************************************)
(* The filesystem.  The directory argument `path` has PathDepth            *)
(* components; kinds[i] is what the i-th prefix of the path is on disk     *)
(* ("absent", "file" or "dir"), kinds[PathDepth] being the path itself.    *)
(* ents maps the name of every entry of the directory to its node.         *)
(***************************************************************************)
Levels == 1..PathDepth

FileNode(data) == [kind |-> "file", data |-> data]
DirNode == [kind |-> "dir", data |-> <<>>]

EmptyMap == [x \in {} |-> 0]

\* the function m with m[k] = v (dict item assignment, {} literal)
MapSet(m, k, v) == [x \in DOMAIN m \cup {k} |-> IF x = k THEN v ELSE m[x]]

\* os.path.exists(path)
PathExists(f) == f.kinds[PathDepth] # "absent"

\* os.path.isdir(path)
PathIsDir(f) == f.kinds[PathDepth] = "dir"

\* os.mkdir-like variant: only the last component is created
MakeDirsLeafOnly(f) == [exc |-> "", fs |-> [f EXCEPT !.kinds[PathDepth] = "dir"]]

\* os.makedirs(path), called when path does not exist: creates every
\* missing component, or raises when a component is a regular file
MakeDirs(f) ==
    IF \E i \in Levels : f.kinds[i] = "file"
    THEN [exc |-> "NotADirectoryError", fs |-> f]
    ELSE [exc |-> "", fs |-> [f EXCEPT !.kinds = [i \in Levels |-> "dir"]]]

\* the error of open(os.path.join(path, name), "r"), "" when it succeeds
OpenForRead(f, name) ==
    CASE f.kinds[PathDepth] = "absent" -> "FileNotFoundError"
      [] f.kinds[PathDepth] = "file" -> "NotADirectoryError"
      [] name \notin DOMAIN f.ents -> "FileNotFoundError"
      [] f.ents[name].kind = "dir" -> "IsADirectoryError"
      [] OTHER -> ""

\* the error of open(os.path.join(path, name), "w"), "" when it succeeds
OpenForWrite(f, name) ==
    CASE f.kinds[PathDepth] = "absent" -> "FileNotFoundError"
      [] f.kinds[PathDepth] = "file" -> "NotADirectoryError"
      [] name \in DOMAIN f.ents /\ f.ents[name].kind = "dir" -> "IsADirectoryError"
      [] OTHER -> ""

\* the file `name` of the directory holds `data` (created or truncated)
PutFile(f, name, data) == [f EXCEPT !.ents = MapSet(f.ents, name, FileNode(data))]

(***************************************************************************)
(* Outcome of a call: exc = "" and the returned value, or the exception    *)
(* that propagates to the caller.                                          *)
(***************************************************************************)
PyNone == [t |-> "none", v |-> 0]
Ok(val) == [exc |-> "", val |-> val]
Raise(exc) == [exc |-> exc, val |-> PyNone]

(***************************************************************************)
(* Raw text: read_file / read_file_async, write_file / write_file_async.   *)
(***************************************************************************)
\* every exception is caught: the text, or ""
ReadFile(f, name) ==
    IF OpenForRead(f, name) # "" THEN Ok(EmptyStr)
    ELSE LET r == TextRead(f.ents[name].data)
         IN  IF r.exc # "" THEN Ok(EmptyStr) ELSE Ok(PyStr(r.text))

\* open(path, "w") creates or truncates the file, then file.write(data)
\* raises TypeError unless data is a str; every exception is caught
WriteFile(f, name, data) ==
    IF OpenForWrite(f, name) # "" THEN f
    ELSE IF data.t # "str" THEN PutFile(f, name, <<>>)
    ELSE PutFile(f, name, TextEncode(data.v))

(***************************************************************************)
(* JSON: read_json / read_json_async, write_json / write_json_async.       *)
(***************************************************************************)
\* only FileNotFoundError and json.JSONDecodeError are caught
ReadJson(f, name) ==
    LET e == OpenForRead(f, name)
    IN  IF e = "FileNotFoundError" THEN Ok(EmptyDict)
        ELSE IF e # "" THEN Raise(e)
        ELSE LET r == TextRead(f.ents[name].data)
                 j == JsonLoads(r.text)
             IN  IF r.exc # "" THEN Raise(r.exc)
                 ELSE IF j.ok THEN Ok(j.val) ELSE Ok(EmptyDict)

\* variant that appends ".json" without looking at the path
JsonPathAlways(name) == name \o Dot \o Json

\* if not path.endswith(".json"): path += ".json"
JsonPath(name) ==
    IF EndsWith(name, Dot \o Json) THEN name ELSE name \o Dot \o Json

\* json.dump(data, file, indent=indent) writes the pieces of the document
\* as the encoder yields them: what precedes a TypeError stays in the file
WriteJson(f, name, data, indent) ==
    IF OpenForWrite(f, JsonPath(name)) # "" THEN f
    ELSE PutFile(f, JsonPath(name), TextEncode(JsonDumps(data, indent).out))

(***************************************************************************)
(* Tabular frames: read_df / write_df.  A frame is its sequence of lines   *)
(* (header first); the delimited-text codec stands for the three codecs.   *)
(***************************************************************************)
\* the non-blank lines of a text
RECURSIVE SplitLines(_, _)
SplitLines(text, line) ==
    IF text = <<>> THEN (IF line = <<>> THEN <<>> ELSE <<line>>)
    ELSE IF Head(text) = "\n"
         THEN (IF line = <<>> THEN <<>> ELSE <<line>>) \o SplitLines(Tail(text), <<>>)
         ELSE SplitLines(Tail(text), Append(line, Head(text)))

RECURSIVE JoinLines(_)
JoinLines(rows) ==
    IF rows = <<>> THEN <<>> ELSE Head(rows) \o <<"\n">> \o JoinLines(Tail(rows))

\* every exception is caught (unknown dtype, missing file, no data): an
\* empty frame
ReadDf(f, name, dtype) ==
    IF dtype \notin Tabular \/ OpenForRead(f, name) # "" THEN Ok(EmptyFrame)
    ELSE LET r == TextRead(f.ents[name].data)
         IN  IF r.exc # "" THEN Ok(EmptyFrame) ELSE Ok(Frame(SplitLines(r.text, <<>>)))

\* data.to_csv(path, index=False): AttributeError when data is no frame,
\* before the file is opened; every exception is caught
WriteDf(f, name, data, dtype) ==
    IF dtype \notin Tabular \/ data.t # "frame" \/ OpenForWrite(f, name) # "" THEN f
    ELSE PutFile(f, name, IF data.v = <<>> THEN <<"\n">> ELSE JoinLines(data.v))

(***************************************************************************)
(* Directory reader: read_dir_contents.                                    *)
(***************************************************************************)
\* variant without the isdir test
DirGuardExists(f) == PathExists(f)

\* os.path.exists(path) and os.path.isdir(path)
DirGuard(f) == PathExists(f) /\ PathIsDir(f)

\* file.endswith(dtype)
Matches(file, dtype) == EndsWith(file, dtype)

\* the reader a matching file is dispatched to
ReadOne(f, file, dtype) ==
    IF dtype = Json THEN ReadJson(f, file)
    ELSE IF dtype \in Tabular THEN ReadDf(f, file, dtype)
    ELSE ReadFile(f, file)

\* the loop over os.listdir(path), `order` being the order of the listing;
\* reads counts the reader calls made
RECURSIVE ReadDirLoop(_, _, _, _, _)
ReadDirLoop(f, dtype, order, contents, reads) ==
    IF order = <<>> THEN [exc |-> "", val |-> contents, reads |-> reads]
    ELSE IF ~Matches(Head(order), dtype)
         THEN ReadDirLoop(f, dtype, Tail(order), contents, reads)
    ELSE LET r == ReadOne(f, Head(order), dtype)
         IN  IF r.exc # ""
             THEN [exc |-> r.exc, val |-> PyNone, reads |-> reads + 1]
             ELSE ReadDirLoop(f, dtype, Tail(order),
                              MapSet(contents, StripDtype(Head(order), dtype), r.val),
                              reads + 1)

ReadDirContents(f, dtype, order) ==
    IF ~DirGuard(f) THEN [exc |-> "", val |-> EmptyMap, reads |-> 0]
    ELSE IF ~PathIsDir(f)
         THEN [exc |-> "NotADirectoryError", val |-> PyNone, reads |-> 0]
    ELSE ReadDirLoop(f, dtype, order, EmptyMap, 0)

(***************************************************************************)
(* Asynchronous readers.                                                   *)
(***************************************************************************)
ReadFileAsync(f, name) ==
    IF OpenForRead(f, name) # "" THEN Ok(EmptyStr)
    ELSE LET r == TextRead(f.ents[name].data)
         IN  IF r.exc # "" THEN Ok(EmptyStr) ELSE Ok(PyStr(r.text))

ReadJsonAsync(f, name) ==
    LET e == OpenForRead(f, name)
    IN  IF e = "FileNotFoundError" THEN Ok(EmptyDict)
        ELSE IF e # "" THEN Raise(e)
        ELSE LET r == TextRead(f.ents[name].data)
                 j == JsonLoads(r.text)
             IN  IF r.exc # "" THEN Raise(r.exc)
                 ELSE IF j.ok THEN Ok(j.val) ELSE Ok(EmptyDict)

\* file.replace(f".{dtype}", "") if dtype != "all" else file
AsyncIdent(file, dtype) == IF dtype # All THEN StripDtype(file, dtype) ELSE file

\* the coroutine appended to `tasks` for a matching file
AsyncReadKind(dtype) == IF dtype = Json THEN "json" ELSE "file"

Task(name, kind, data) ==
    [name |-> name, kind |-> kind, data |-> data, pc |-> "open", res |-> Ok(PyNone)]

\* the matching files of the listing, in order
RECURSIVE Matching(_, _)
Matching(order, dtype) ==
    IF order = <<>> THEN <<>>
    ELSE (IF Matches(Head(order), dtype) THEN <<Head(order)>> ELSE <<>>)
         \o Matching(Tail(order), dtype)

\* the lists idents and tasks built by read_dir_contents_async
AsyncReadIdents(f, dtype, order) ==
    IF ~DirGuard(f) THEN <<>>
    ELSE LET files == Matching(order, dtype)
         IN  [i \in 1..Len(files) |-> AsyncIdent(files[i], dtype)]

AsyncReadTasks(f, dtype, order) ==
    IF ~DirGuard(f) THEN <<>>
    ELSE LET files == Matching(order, dtype)
         IN  [i \in 1..Len(files) |-> Task(files[i], AsyncReadKind(dtype), PyNone)]

\* {ident: content for ident, content in zip(idents, results)}
RECURSIVE Zip(_, _, _)
Zip(idents, results, contents) ==
    IF idents = <<>> \/ results = <<>> THEN contents
    ELSE Zip(Tail(idents), Tail(results), MapSet(contents, Head(idents), Head(results)))

(***************************************************************************)
(* Directory writers: write_contents_to_dir, write_contents_to_dir_async.  *)
(***************************************************************************)
\* the identifiers of a mapping in the order contents.items() yields them
RECURSIVE ItemsOf(_)
ItemsOf(S) ==
    IF S = {} THEN <<>>
    ELSE LET x == CHOOSE y \in S : TRUE IN <<x>> \o ItemsOf(S \ {x})

\* if not os.path.exists(path): os.makedirs(path)
EnsureDir(f) == IF ~PathExists(f) THEN MakeDirs(f) ELSE [exc |-> "", fs |-> f]

\* the writer an entry is dispatched to
WriteOne(f, file, content, dtype) ==
    IF dtype = Json THEN WriteJson(f, file, content, Indent)
    ELSE IF dtype \in Tabular THEN WriteDf(f, file, content, dtype)
    ELSE WriteFile(f, file, content)

RECURSIVE WriteDirLoop(_, _, _, _)
WriteDirLoop(f, contents, dtype, idents) ==
    IF idents = <<>> THEN f
    ELSE WriteDirLoop(WriteOne(f, FileName(Head(idents), dtype), contents[Head(idents)], dtype),
                      contents, dtype, Tail(idents))

WriteContentsToDir(f, contents, dtype) ==
    LET d == EnsureDir(f)
    IN  IF d.exc # "" THEN d
        ELSE [exc |-> "", fs |-> WriteDirLoop(d.fs, contents, dtype, ItemsOf(DOMAIN contents))]

\* variant that sends every dtype to write_file_async
AsyncWriteKindFile(dtype) == "file"

\* the coroutines appended to `tasks` by write_contents_to_dir_async
AsyncWriteKind(dtype) == IF dtype = Json THEN "json" ELSE "file"

AsyncWriteTasks(contents, dtype) ==
    LET idents == ItemsOf(DOMAIN contents)
    IN  [i \in 1..Len(idents) |->
            Task(FileName(idents[i], dtype), AsyncWriteKind(dtype), contents[idents[i]])]

\* the file a write task opens
TaskTarget(t) == IF t.kind = "json" THEN JsonPath(t.name) ELSE t.name

\* what a write task writes into its opened file; ok is FALSE when
\* json.dumps or file.write raises TypeError and nothing is written
TaskText(t) ==
    IF t.kind = "json"
    THEN LET enc == JsonDumps(t.data, Indent)
         IN  [ok |-> enc.ok, text |-> IF enc.ok THEN TextEncode(enc.out) ELSE <<>>]
    ELSE [ok |-> t.data.t = "str",
          text |-> IF t.data.t = "str" THEN TextEncode(t.data.v) ELSE <<>>]

(***************************************************************************)
(* State.                                                                  *)
(*   fs     the filesystem                                                 *)
(*   call   the asynchronous directory call in flight, if any              *)
(*   tasks  its coroutines, in the order they were passed to gather        *)
(*   last   the last completed read call and its outcome (files: the       *)
(*          matching files in the order os.listdir listed them)            *)
(*   wrote  the directory write of this behaviour and its outcome (fs0:    *)
(*          the filesystem when it was called)                             *)
(* A behaviour is: some filesystem, at most one directory write, and any   *)
(* number of reads.                                                        *)
(***************************************************************************)
VARIABLES fs, call, tasks, last, wrote

vars == <<fs, call, tasks, last, wrote>>

Idle == [op |-> "idle", dtype |-> <<>>, idents |-> <<>>, files |-> <<>>]

NoLast ==
    [op |-> "none", dtype |-> <<>>, name |-> <<>>, files |-> <<>>,
     exc |-> "", val |-> PyNone, reads |-> 0, pending |-> 0]

NoWrite == [op |-> "none", dtype |-> <<>>, M |-> EmptyMap, exc |-> "", fs0 |-> 0]

\* the orders os.listdir may list the names S in
Orders(S) ==
    {o \in [1..Cardinality(S) -> S] : \A i, j \in DOMAIN o : i # j => o[i] # o[j]}

Kinds == {k \in [Levels -> {"absent", "file", "dir"}] :
            \A i \in Levels : i > 1 /\ k[i] # "absent" => k[i - 1] = "dir"}

\* the directories made of at most MaxEntries of the candidate entries
Directories(cands) ==
    {[n \in {p.name : p \in P} |-> (CHOOSE p \in P : p.name = n).node] :
        P \in {Q \in SUBSET cands :
                 /\ Cardinality(Q) <= MaxEntries
                 /\ \A p, q \in Q : p.name = q.name => p = q}}

FileSystems(cands) ==
    {[kinds |-> k, ents |-> EmptyMap] : k \in {h \in Kinds : h[PathDepth] # "dir"}}
    \cup {[kinds |-> [i \in Levels |-> "dir"], ents |-> e] : e \in Directories(cands)}

Entry(name, node) == [name |-> name, node |-> node]

Record1 == PyDict(<<Item(PyStr(<<"k">>), PyInt(1))>>)
BadRecord == PyDict(<<Item(PyStr(<<"k">>), Obj)>>)

\* entries a directory may hold before a read
ReadEntries ==
    { Entry(FileName(<<"a">>, Json), FileNode(JsonDumps(Record1, Indent).out)),
      Entry(FileName(<<"a">>, Json), FileNode(<<"{">>)),
      Entry(FileName(FileName(<<"a">>, Json), Json), FileNode(<<"\"", "x", "\"">>)),
      Entry(FileName(<<"b">>, Json), FileNode(<<BadByte>>)),
      Entry(FileName(<<"d">>, Json), DirNode),
      Entry(<<"a">> \o Json, FileNode(<<"7">>)),
      Entry(FileName(<<"a">>, Txt), FileNode(<<"x">>)),
      Entry(FileName(FileName(<<"a">>, Txt), Txt), FileNode(<<"y", "\r">>)),
      Entry(FileName(<<"a">>, Csv), FileNode(<<"h", "\n", "1", "\n">>)),
      Entry(FileName(<<"a">>, All), FileNode(<<"z">>)) }

\* entries a directory may hold before a write
WriteEntries ==
    { Entry(FileName(<<"a">>, Txt), FileNode(<<"o">>)),
      Entry(FileName(<<"a">>, Json), FileNode(JsonDumps(Record1, Indent).out)),
      Entry(FileName(<<"b">>, Json), DirNode) }

ReadDtypes == {Json, Txt, Csv, All}
WriteDtypes == {Json, Txt, Csv}
TextDtypes == {Json, Txt}

\* the identifiers and contents of the mappings written
Idents(dtype) == {<<"a">>, <<"b">>, FileName(<<"a">>, dtype)}
Values == {PyStr(<<"x">>), Record1, BadRecord, Frame(<<<<"h">>>>)}

MappingsOf(dtype, values) ==
    UNION {[S -> values] : S \in {T \in SUBSET Idents(dtype) : Cardinality(T) <= MaxEntries}}

\* any content under any dtype
Mappings(dtype) == MappingsOf(dtype, Values)

\* content of the type of the dtype: JSON-compatible records for "json",
\* raw text otherwise
Fitting(dtype) ==
    IF dtype = Json THEN {Record1, EmptyDict, PyStr(<<"x">>)}
    ELSE {PyStr(<<"x">>), PyStr(<<"\r">>), EmptyStr}

FittingMappings(dtype) == MappingsOf(dtype, Fitting(dtype))

\* a name that is in no directory
Missing == <<"m">>

TypeOK ==
    /\ fs.kinds \in Kinds
    /\ call.op \in {"idle", "read_dir_async", "write_dir_async"}
    /\ last.op \in {"none", "read_dir", "read_dir_async", "read_file", "read_file_async",
                    "read_json", "read_json_async", "read_df"}
    /\ wrote.op \in {"none", "pending", "write_dir", "write_dir_async"}
    /\ \A i \in DOMAIN tasks : tasks[i].pc \in {"open", "opened", "done", "raised"}

InitCommon ==
    /\ call = Idle
    /\ tasks = <<>>
    /\ last = NoLast
    /\ wrote = NoWrite

Init ==
    /\ fs \in FileSystems(ReadEntries)
    /\ InitCommon

InitWrite ==
    /\ fs \in FileSystems(WriteEntries)
    /\ InitCommon

\* a path that holds no entry
InitRoundTrip ==
    /\ fs \in FileSystems({})
    /\ InitCommon

(***************************************************************************)
(* Synchronous calls.                                                      *)
(***************************************************************************)
ReadDirOf(dtypes) ==
    /\ call = Idle
    /\ \E dtype \in dtypes, order \in Orders(DOMAIN fs.ents) :
        /\ LET r == ReadDirContents(fs, dtype, order)
           IN  last' = [NoLast EXCEPT !.op = "read_dir", !.dtype = dtype,
                                      !.files = Matching(order, dtype),
                                      !.exc = r.exc, !.val = r.val, !.reads = r.reads]
        /\ UNCHANGED <<fs, call, tasks, wrote>>

ReadDir == ReadDirOf(ReadDtypes)

\* read_file, read_json, read_df and the two coroutines called on one path
ReadSingle(op, name, r) ==
    /\ call = Idle
    /\ wrote.op = "none"
    /\ last' = [NoLast EXCEPT !.op = op, !.name = name, !.exc = r.exc, !.val = r.val,
                              !.reads = 1]
    /\ UNCHANGED <<fs, call, tasks, wrote>>

ReadFileCall ==
    \E name \in DOMAIN fs.ents \cup {Missing} : ReadSingle("read_file", name, ReadFile(fs, name))

ReadFileAsyncCall ==
    \E name \in DOMAIN fs.ents \cup {Missing} :
        ReadSingle("read_file_async", name, ReadFileAsync(fs, name))

ReadJsonCall ==
    \E name \in DOMAIN fs.ents \cup {Missing} : ReadSingle("read_json", name, ReadJson(fs, name))

ReadJsonAsyncCall ==
    \E name \in DOMAIN fs.ents \cup {Missing} :
        ReadSingle("read_json_async", name, ReadJsonAsync(fs, name))

ReadDfCall ==
    \E name \in DOMAIN fs.ents \cup {Missing} : ReadSingle("read_df", name, ReadDf(fs, name, Csv))

\* maps[dtype]: the mappings the caller may pass with that dtype
WriteDirOf(maps) ==
    /\ call = Idle
    /\ wrote.op = "none"
    /\ \E dtype \in DOMAIN maps : \E M \in maps[dtype] :
        /\ LET r == WriteContentsToDir(fs, M, dtype)
           IN  /\ fs' = r.fs
               /\ wrote' = [op |-> "write_dir", dtype |-> dtype, M |-> M, exc |-> r.exc,
                            fs0 |-> fs]
        /\ last' = NoLast
        /\ UNCHANGED <<call, tasks>>

WriteDir == WriteDirOf([dtype \in WriteDtypes |-> Mappings(dtype)])

(***************************************************************************)
(* read_dir_contents_async: the lists are built, gather runs the           *)
(* coroutines (each suspends at aiofiles.open and at file.read) and        *)
(* returns their results in the order of `tasks`, or propagates the first  *)
(* exception raised by one of them while the others are still running.     *)
(***************************************************************************)
ReadDirAsyncStartOf(dtypes) ==
    /\ call = Idle
    /\ \E dtype \in dtypes, order \in Orders(DOMAIN fs.ents) :
        /\ IF DirGuard(fs) /\ ~PathIsDir(fs)
           THEN \* os.listdir raises
                /\ last' = [NoLast EXCEPT !.op = "read_dir_async", !.dtype = dtype,
                                          !.exc = "NotADirectoryError"]
                /\ UNCHANGED <<call, tasks>>
           ELSE /\ call' = [op |-> "read_dir_async", dtype |-> dtype,
                            idents |-> AsyncReadIdents(fs, dtype, order),
                            files |-> Matching(order, dtype)]
                /\ tasks' = AsyncReadTasks(fs, dtype, order)
                /\ last' = NoLast
        /\ UNCHANGED <<fs, wrote>>

ReadDirAsyncStart == ReadDirAsyncStartOf(ReadDtypes)

\* the result of a read coroutine
TaskRead(t) == IF t.kind = "json" THEN ReadJsonAsync(fs, t.name) ELSE ReadFileAsync(fs, t.name)

Finished(t, res) == [t EXCEPT !.res = res, !.pc = IF res.exc = "" THEN "done" ELSE "raised"]

ReadTaskOpen ==
    /\ call.op = "read_dir_async"
    /\ \E i \in DOMAIN tasks :
        /\ tasks[i].pc = "open"
        /\ tasks' = [tasks EXCEPT ![i] =
                        IF OpenForRead(fs, tasks[i].name) = ""
                        THEN [tasks[i] EXCEPT !.pc = "opened"]
                        ELSE Finished(tasks[i], TaskRead(tasks[i]))]
        /\ UNCHANGED <<fs, call, last, wrote>>

ReadTaskRead ==
    /\ call.op = "read_dir_async"
    /\ \E i \in DOMAIN tasks :
        /\ tasks[i].pc = "opened"
        /\ tasks' = [tasks EXCEPT ![i] = Finished(tasks[i], TaskRead(tasks[i]))]
        /\ UNCHANGED <<fs, call, last, wrote>>

Running == {i \in DOMAIN tasks : tasks[i].pc \in {"open", "opened"}}

ReadDirAsyncReturn ==
    /\ call.op = "read_dir_async"
    /\ \/ /\ \A i \in DOMAIN tasks : tasks[i].pc = "done"
          /\ last' = [NoLast EXCEPT !.op = "read_dir_async", !.dtype = call.dtype,
                                    !.files = call.files, !.reads = Len(tasks),
                                    !.val = Zip(call.idents,
                                                [i \in DOMAIN tasks |-> tasks[i].res.val],
                                                EmptyMap)]
       \/ \E i \in DOMAIN tasks :
            /\ tasks[i].pc = "raised"
            /\ last' = [NoLast EXCEPT !.op = "read_dir_async", !.dtype = call.dtype,
                                      !.files = call.files, !.reads = Len(tasks),
                                      !.exc = tasks[i].res.exc,
                                      !.pending = Cardinality(Running)]
    /\ call' = Idle
    /\ tasks' = <<>>
    /\ UNCHANGED <<fs, wrote>>

(***************************************************************************)
(* write_contents_to_dir_async: the directory is created, gather runs the  *)
(* write coroutines (each suspends at aiofiles.open, which creates or      *)
(* truncates the file, and at file.write) and returns when all are done;   *)
(* a write coroutine catches every exception.                              *)
(***************************************************************************)
WriteDirAsyncStartOf(maps) ==
    /\ call = Idle
    /\ wrote.op = "none"
    /\ \E dtype \in DOMAIN maps : \E M \in maps[dtype] :
        /\ LET d == EnsureDir(fs)
           IN  IF d.exc # ""
               THEN /\ wrote' = [op |-> "write_dir_async", dtype |-> dtype, M |-> M,
                                 exc |-> d.exc, fs0 |-> fs]
                    /\ UNCHANGED <<fs, call, tasks>>
               ELSE /\ fs' = d.fs
                    /\ call' = [Idle EXCEPT !.op = "write_dir_async", !.dtype = dtype]
                    /\ tasks' = AsyncWriteTasks(M, dtype)
                    /\ wrote' = [op |-> "pending", dtype |-> dtype, M |-> M, exc |-> "",
                                 fs0 |-> fs]
        /\ last' = NoLast

WriteDirAsyncStart == WriteDirAsyncStartOf([dtype \in WriteDtypes |-> Mappings(dtype)])

WriteTaskOpen ==
    /\ call.op = "write_dir_async"
    /\ \E i \in DOMAIN tasks :
        /\ tasks[i].pc = "open"
        /\ IF OpenForWrite(fs, TaskTarget(tasks[i])) # ""
           THEN /\ tasks' = [tasks EXCEPT ![i].pc = "done"]
                /\ fs' = fs
           ELSE /\ tasks' = [tasks EXCEPT ![i].pc = "opened"]
                /\ fs' = PutFile(fs, TaskTarget(tasks[i]), <<>>)
        /\ UNCHANGED <<call, last, wrote>>

WriteTaskWrite ==
    /\ call.op = "write_dir_async"
    /\ \E i \in DOMAIN tasks :
        /\ tasks[i].pc = "opened"
        /\ tasks' = [tasks EXCEPT ![i].pc = "done"]
        /\ fs' = IF TaskText(tasks[i]).ok
                 THEN PutFile(fs, TaskTarget(tasks[i]), TaskText(tasks[i]).text)
                 ELSE fs
        /\ UNCHANGED <<call, last, wrote>>

WriteDirAsyncReturn ==
    /\ call.op = "write_dir_async"
    /\ \A i \in DOMAIN tasks : tasks[i].pc = "done"
    /\ call' = Idle
    /\ tasks' = <<>>
    /\ wrote' = [wrote EXCEPT !.op = "write_dir_async"]
    /\ UNCHANGED <<fs, last>>

(***************************************************************************)
(* Specifications.                                                         *)
(*   Spec           any directory, every read call                         *)
(*   SpecWrite      directory reads, then a directory write of any         *)
(*                  mapping into any directory                             *)
(*   SpecRoundTrip  a mapping whose content has the type of the dtype is   *)
(*                  written into a path that holds no entry and read back  *)
(*                  with the same dtype                                    *)
(***************************************************************************)
Written == wrote.op \in {"write_dir", "write_dir_async"}

Next ==
    \/ ReadDir
    \/ ReadFileCall
    \/ ReadFileAsyncCall
    \/ ReadJsonCall
    \/ ReadJsonAsyncCall
    \/ ReadDfCall
    \/ ReadDirAsyncStart
    \/ ReadTaskOpen
    \/ ReadTaskRead
    \/ ReadDirAsyncReturn

Spec == Init /\ [][Next]_vars

ReadFirst == wrote.op = "none" /\ ReadDir
ReadFirstAsync == wrote.op = "none" /\ ReadDirAsyncStart

NextWrite ==
    \/ ReadFirst
    \/ ReadFirstAsync
    \/ ReadTaskOpen
    \/ ReadTaskRead
    \/ ReadDirAsyncReturn
    \/ WriteDir
    \/ WriteDirAsyncStart
    \/ WriteTaskOpen
    \/ WriteTaskWrite
    \/ WriteDirAsyncReturn

SpecWrite == InitWrite /\ [][NextWrite]_vars

WriteFitting == WriteDirOf([dtype \in TextDtypes |-> FittingMappings(dtype)])
WriteFittingAsync == WriteDirAsyncStartOf([dtype \in TextDtypes |-> FittingMappings(dtype)])
ReadBack == Written /\ ReadDirOf({wrote.dtype})
ReadBackAsync == Written /\ ReadDirAsyncStartOf({wrote.dtype})

NextRoundTrip ==
    \/ WriteFitting
    \/ WriteFittingAsync
    \/ WriteTaskOpen
    \/ WriteTaskWrite
    \/ WriteDirAsyncReturn
    \/ ReadBack
    \/ ReadBackAsync
    \/ ReadTaskOpen
    \/ ReadTaskRead
    \/ ReadDirAsyncReturn

SpecRoundTrip == InitRoundTrip /\ [][NextRoundTrip]_vars

(***************************************************************************)
(* Properties.                                                             *)
(***************************************************************************)
DirReads == {"read_dir", "read_dir_async"}
JsonReads == {"read_json", "read_json_async"}

\* the path did not exist, or was an empty directory, when the write began
FreshDir(f) == ~PathExists(f) \/ (PathIsDir(f) /\ DOMAIN f.ents = {})

\* the files the entries of the written mapping are to be found in
EntryFiles == {FileName(ident, wrote.dtype) : ident \in DOMAIN wrote.M}

IsFile(f, name) == name \in DOMAIN f.ents /\ f.ents[name].kind = "file"

\* a name with its trailing "." + dtype removed, the rest left unchanged
Stem(file, dtype) ==
    IF EndsWith(file, Dot \o dtype)
    THEN SubSeq(file, 1, Len(file) - Len(dtype) - 1)
    ELSE file

\* the content of a file is not a JSON document
NotJson(data) == TextRead(data).exc # "" \/ ~JsonLoads(TextRead(data).text).ok

\* C1: a mapping written into a fresh directory and read back with the same
\* dtype (by either reader) is returned unchanged: same keys, same content
C1_RoundTrip ==
    (Written /\ wrote.exc = "" /\ FreshDir(wrote.fs0) /\ last.op \in DirReads)
        => (last.exc = "" /\ last.val = wrote.M)

\* C2: no call ever propagates an exception, and a read whose file cannot be
\* opened returns the empty value of its type
C2_NoExceptionPropagates ==
    /\ last.exc = ""
    /\ wrote.exc = ""
    /\ (last.op \in JsonReads \cup {"read_file", "read_file_async", "read_df"}
            /\ OpenForRead(fs, last.name) # "")
        => last.val \in {EmptyStr, EmptyDict, EmptyFrame}

\* C3: the keys returned by read_dir_contents are the names of the matching
\* entries with the trailing "." + dtype removed and the rest unchanged, and
\* distinct matching files give distinct keys
C3_KeysAreStems ==
    (last.op = "read_dir" /\ last.exc = "" /\ PathIsDir(fs))
        => /\ DOMAIN last.val = {Stem(last.files[i], last.dtype) : i \in DOMAIN last.files}
           /\ Cardinality(DOMAIN last.val) = Len(last.files)

\* C4: once write_contents_to_dir_async has returned on a fresh directory,
\* the directory holds exactly one file per entry of the mapping, named
\* <identifier>.<dtype>, whatever the interleaving of the write tasks
C4_AsyncWriteOneFilePerEntry ==
    (wrote.op = "write_dir_async" /\ wrote.exc = "" /\ FreshDir(wrote.fs0))
        => /\ PathIsDir(fs)
           /\ DOMAIN fs.ents = EntryFiles
           /\ \A name \in EntryFiles : IsFile(fs, name)
           /\ Cardinality(DOMAIN fs.ents) = Cardinality(DOMAIN wrote.M)

C4_Witness ==
    /\ wrote.op = "write_dir_async"
    /\ wrote.exc = ""
    /\ ~PathExists(wrote.fs0)
    /\ Cardinality(DOMAIN wrote.M) >= 2
    /\ Cardinality(DOMAIN fs.ents) >= 2

\* C5: when the path does not exist or is not a directory, both directory
\* readers return an empty mapping, raise nothing and launch no read
C5_NoDirectoryEmptyMapping ==
    /\ (last.op \in DirReads /\ ~PathIsDir(fs))
        => (last.exc = "" /\ last.val = EmptyMap /\ last.reads = 0)
    /\ (call.op = "read_dir_async" /\ ~PathIsDir(fs)) => tasks = <<>>

C5_Witness ==
    /\ last.op = "read_dir"
    /\ fs.kinds[PathDepth] = "file"
    /\ last.val = EmptyMap

\* C6: read_json and read_json_async return {} for an existing file that is
\* not a JSON document; a directory read with dtype "json" whose matching
\* entries are regular files raises nothing and returns, under the
\* identifier of every matching file, {} when the file is malformed and its
\* parsed content otherwise
C6_MalformedJsonIsEmpty ==
    /\ (last.op \in JsonReads /\ IsFile(fs, last.name) /\ NotJson(fs.ents[last.name].data))
        => (last.exc = "" /\ last.val = EmptyDict)
    /\ (last.op \in DirReads /\ last.dtype = Json /\ PathIsDir(fs)
            /\ \A i \in DOMAIN last.files : IsFile(fs, last.files[i]))
        => /\ last.exc = ""
           /\ \A i \in DOMAIN last.files :
                LET file == last.files[i]
                    ident == Stem(file, Json)
                IN  /\ ident \in DOMAIN last.val
                    /\ last.val[ident] =
                          IF NotJson(fs.ents[file].data) THEN EmptyDict
                          ELSE JsonLoads(TextRead(fs.ents[file].data).text).val

\* C7 (as stated): after a directory write to a path that did not exist, the
\* path and all its ancestors are directories and the file of every entry is
\* in it; an existing directory stays, its other files untouched
C7_ParentsAndEntryFiles ==
    /\ (Written /\ wrote.exc = "" /\ ~PathExists(wrote.fs0))
        => /\ \A i \in Levels : fs.kinds[i] = "dir"
           /\ \A name \in EntryFiles : IsFile(fs, name)
    /\ (Written /\ PathIsDir(wrote.fs0))
        => /\ PathIsDir(fs)
           /\ \A name \in DOMAIN wrote.fs0.ents \ EntryFiles :
                name \in DOMAIN fs.ents /\ fs.ents[name] = wrote.fs0.ents[name]

\* the entries write_df opens a file for: under a tabular dtype the
\* synchronous writer fails before opening the file of a content that is
\* not a frame
OpenedEntryFiles ==
    {FileName(ident, wrote.dtype) :
        ident \in {i \in DOMAIN wrote.M :
                     (wrote.op = "write_dir" /\ wrote.dtype \in Tabular)
                        => wrote.M[i].t = "frame"}}

\* C7 (amended): after a directory write to a path that did not exist, the
\* path and all its ancestors are directories and the file of every entry is
\* in it, except that under a tabular dtype the synchronous writer creates
\* no file for a content that is not a frame; an existing directory stays,
\* its other files untouched
C7_ParentsCreated ==
    /\ (Written /\ wrote.exc = "" /\ ~PathExists(wrote.fs0))
        => /\ \A i \in Levels : fs.kinds[i] = "dir"
           /\ \A name \in OpenedEntryFiles : IsFile(fs, name)
           /\ DOMAIN fs.ents \subseteq EntryFiles
    /\ (Written /\ PathIsDir(wrote.fs0))
        => /\ PathIsDir(fs)
           /\ \A name \in DOMAIN wrote.fs0.ents \ EntryFiles :
                name \in DOMAIN fs.ents /\ fs.ents[name] = wrote.fs0.ents[name]

C7_Witness ==
    /\ Written
    /\ wrote.exc = ""
    /\ \A i \in Levels : wrote.fs0.kinds[i] = "absent"
    /\ \A i \in Levels : fs.kinds[i] = "dir"
    /\ DOMAIN wrote.M # {}
    /\ DOMAIN fs.ents = EntryFiles

\* C8: read_dir_contents_async returns only when all its tasks are done, and
\* the failure of a task never fails the call
C8_JoinAllIsolatesFailures ==
    last.op = "read_dir_async"
        => (last.exc = "" /\ last.pending = 0 /\ last.reads = Len(last.files))

\* C9: the mapping returned by read_dir_contents_async has one entry per
\* matching file and pairs the identifier of each file with the content read
\* from that file
C9_AsyncPairsOwnContent ==
    (last.op = "read_dir_async" /\ last.exc = "" /\ PathIsDir(fs))
        => /\ Cardinality(DOMAIN last.val) = Len(last.files)
           /\ \A i \in DOMAIN last.files :
                LET ident == AsyncIdent(last.files[i], last.dtype)
                    own == IF last.dtype = Json THEN ReadJsonAsync(fs, last.files[i])
                           ELSE ReadFileAsync(fs, last.files[i])
                IN  ident \in DOMAIN last.val /\ last.val[ident] = own.val

\* the asynchronous reader returned what the synchronous reader returns for
\* the same directory, dtype and listing order (or both raise)
SameRead ==
    LET sync == ReadDirContents(fs, last.dtype, last.files)
    IN  IF last.exc = "" THEN sync.exc = "" /\ sync.val = last.val
        ELSE sync.exc # ""

\* the asynchronous writer left the directory as the synchronous writer
\* leaves it for the same mapping (or both raise)
SameWrite ==
    LET sync == WriteContentsToDir(wrote.fs0, wrote.M, wrote.dtype)
    IN  sync.exc = wrote.exc /\ sync.fs = fs

\* every content of the written mapping is serialisable by json
Serialisable == \A ident \in DOMAIN wrote.M : JsonDumps(wrote.M[ident], Indent).ok

\* C10 (as stated): for dtype "json" or a raw-text tag the two directory
\* readers return equal outcomes on the same directory and the two directory
\* writers leave the same directory for the same mapping
C10_SyncAsyncEquivalent ==
    /\ (last.op = "read_dir_async" /\ last.dtype \in {Json, Txt}) => SameRead
    /\ (wrote.op = "write_dir_async" /\ wrote.dtype \in {Json, Txt}) => SameWrite

\* C10 (amended): as stated for the readers; the two writers leave the same
\* directory for the same mapping provided that, under dtype "json", every
\* content is serialisable by json (otherwise the synchronous writer leaves
\* the part of the document written before the error, the asynchronous
\* writer an empty file); under "all" the asynchronous reader keys each
\* matching file by its full name
C10_EquivalentWhenSerialisable ==
    /\ (last.op = "read_dir_async" /\ last.dtype \in {Json, Txt}) => SameRead
    /\ (wrote.op = "write_dir_async" /\ wrote.dtype = Txt) => SameWrite
    /\ (wrote.op = "write_dir_async" /\ wrote.dtype = Json /\ Serialisable) => SameWrite
    /\ (last.op = "read_dir_async" /\ last.dtype = All /\ last.exc = "")
        => DOMAIN last.val = {last.files[i] : i \in DOMAIN last.files}

C10_Witness ==
    /\ wrote.op = "write_dir_async"
    /\ wrote.dtype = Json
    /\ wrote.exc = ""
    /\ Serialisable
    /\ \E ident \in DOMAIN wrote.M :
          /\ wrote.M[ident] = Record1
          /\ IsFile(fs, FileName(ident, Json))
          /\ fs.ents[FileName(ident, Json)].data = JsonDumps(Record1, Indent).out

====
